---------------------------- MODULE Spec2Model ----------------------------
(***************************************************************************)
(* A model of the AI-News-Bias-Detector: the bias detector                 *)
(* (src/bias_detector_hf.py), the Gemini handler (src/gemini_handler.py),  *)
(* the command-line loop (src/main.py) and the Streamlit script            *)
(* (src/app.py).                                                           *)
(*                                                                         *)
(* Texts are TLA+ strings.  Percentages are exact rationals: a score is an *)
(* integer numerator over a denominator common to the three scores of one  *)
(* call, and a returned (rounded) field is an integer number of hundredths *)
(* of a percent, so 33.33 is 3333.                                         *)
(***************************************************************************)
EXTENDS Integers, Sequences, FiniteSets, TLC

(***************************************************************************)
(* Bounds of the model.                                                    *)
(***************************************************************************)
\* A text is the concatenation of at most MaxFrags fragments.
MaxFrags == 2
\* A class probability is a multiple of 1/ProbDen.
ProbDen == 20
\* The same for a model with more than three labels, whose probabilities
\* the code computes and never reads.
CoarseDen == 3

(***************************************************************************)
(* Strings: str.lower, str.strip, the "in" operator, str.startswith.       *)
(***************************************************************************)
UpperCase == "ABCDEFGHIJKLMNOPQRSTUVWXYZ"
LowerCase == "abcdefghijklmnopqrstuvwxyz"

\* The index of the one-character string c in s, 0 when it is absent.
IndexOf(c, s) ==
    LET hits == {i \in 1..Len(s) : SubSeq(s, i, i) = c}
    IN  IF hits = {} THEN 0 ELSE CHOOSE i \in hits : \A j \in hits : i <= j

LowerChar(c) ==
    LET i == IndexOf(c, UpperCase)
    IN  IF i = 0 THEN c ELSE SubSeq(LowerCase, i, i)

\* s.lower(), one half of s after the other.
RECURSIVE Lower(_)
Lower(s) ==
    IF Len(s) = 0 THEN ""
    ELSE IF Len(s) = 1 THEN LowerChar(s)
    ELSE LET half == Len(s) \div 2
         IN  Lower(SubSeq(s, 1, half)) \o Lower(SubSeq(s, half + 1, Len(s)))

\* kw in s
In(kw, s) ==
    \E i \in 1..(Len(s) - Len(kw) + 1) : SubSeq(s, i, i + Len(kw) - 1) = kw

StartsWith(s, prefix) ==
    Len(s) >= Len(prefix) /\ SubSeq(s, 1, Len(prefix)) = prefix

IsSpace(c) == c \in {" ", "\n", "\t"}

RECURSIVE LStrip(_)
LStrip(s) ==
    IF s # "" /\ IsSpace(SubSeq(s, 1, 1)) THEN LStrip(Tail(s)) ELSE s

RECURSIVE RStrip(_)
RStrip(s) ==
    IF s # "" /\ IsSpace(SubSeq(s, Len(s), Len(s)))
    THEN RStrip(SubSeq(s, 1, Len(s) - 1))
    ELSE s

\* A variant that strips nothing.
Strip_Nothing(s) == s

Strip(s) == RStrip(LStrip(s))

(***************************************************************************)
(* round(x, 2) of the rational percentage num/den, in hundredths: the      *)
(* nearest integer to 100*num/den, a tie going to the even one.            *)
(***************************************************************************)
Round2(num, den) ==
    LET a == 100 * num
        q == a \div den
        r == a % den
    IN  IF 2 * r < den THEN q
        ELSE IF 2 * r > den THEN q + 1
        ELSE IF q % 2 = 0 THEN q ELSE q + 1

(***************************************************************************)
(* The keyword lexicon of _init_keyword_detector.                          *)
(***************************************************************************)
LeftKeywords ==
    << "progressive", "liberal", "equality", "social justice", "diversity",
       "climate change", "renewable energy", "healthcare for all", "universal",
       "regulation", "welfare", "immigration reform", "gun control",
       "minimum wage", "workers rights", "union", "tax the rich",
       "systemic racism", "lgbtq", "reproductive rights", "environment",
       "sustainability", "public education", "affordable housing",
       "medicare", "medicaid", "green new deal", "racial justice" >>

RightKeywords ==
    << "conservative", "traditional values", "free market", "capitalism",
       "deregulation", "lower taxes", "small government", "second amendment",
       "law and order", "border security", "illegal immigration",
       "pro-life", "family values", "religious freedom", "patriot",
       "national security", "military strength", "fiscal responsibility",
       "individual liberty", "limited government", "constitutional rights",
       "school choice", "energy independence", "law enforcement" >>

NeutralKeywords ==
    << "bipartisan", "compromise", "moderate", "balanced", "objective",
       "evidence-based", "factual", "data shows", "research indicates",
       "experts say", "according to", "both sides", "nonpartisan",
       "analysis", "study", "report", "officials" >>

VARIABLES
    pc,                 \* where the detector's user is: new, ready, called, returned
    model_loaded,       \* self.model_loaded
    num_labels,         \* self.num_labels, 0 while the attribute is not set
    id2label,           \* self.id2label as the sequence of its names, index 0 first
    left_keywords,      \* self.left_keywords
    right_keywords,     \* self.right_keywords
    neutral_keywords,   \* self.neutral_keywords
    load_attempts,      \* how many times from_pretrained was entered
    load_error,         \* the statement of __init__ that raised, "none" if none
    text,               \* the argument of the detect_bias call in progress
    inference,          \* what tokenizer and model did in this call
    outcome,            \* how the call ended: a returned record or an exception
    gemini_ready,       \* a GeminiHandler was constructed
    raw_input,          \* what the user typed or pasted, not yet stripped
    remote,             \* what the last generate_content call did
    calls,              \* the functions called for the current input, in order
    verification_result,    \* what verify_news returned
    summary,            \* what summarize_news returned
    display,            \* what was shown for the current input, in order
    analyze_btn,        \* the Analyze Content button was pressed in this run
    exit_code,          \* the status the process exited with
    prediction_error_printed    \* "Model prediction error" was printed by a
                                \* call of this detector

\* The fields of the detector.
detectorVars == << model_loaded, num_labels, id2label, left_keywords,
                   right_keywords, neutral_keywords, load_attempts,
                   load_error >>

\* The state of the command-line program and of the Streamlit script.
frontVars == << gemini_ready, raw_input, remote, calls, verification_result,
                summary, display, analyze_btn, exit_code >>

vars == << pc, detectorVars, text, inference, outcome, frontVars,
           prediction_error_printed >>

\* An optional value: None, or a value.
None == << >>
Some(v) == << v >>


(***************************************************************************)
(* How a call ends.                                                        *)
(***************************************************************************)
\* counts holds left_count, right_count and neutral_count when
\* _detect_with_keywords computed them in the call, and is empty otherwise.
NoOutcome == [kind |-> "none"]
Raised == [kind |-> "raise"]
Returned(rec, counts) == [kind |-> "return", value |-> rec, counts |-> counts]

KeywordMethod == "Keyword-based (Fallback)"
ModelMethod == "Hugging Face ML Model"

(***************************************************************************)
(* _detect_with_keywords.  left_percent is 100 * left_count / total_count, *)
(* kept as the numerator 100 * left_count over total_count.                *)
(***************************************************************************)
\* The number of places at which kw occurs in s.
Occurrences(kw, s) ==
    Cardinality({i \in 1..(Len(s) - Len(kw) + 1) :
                    SubSeq(s, i, i + Len(kw) - 1) = kw})

\* A variant that counts every occurrence of a term: sum(text_lower.count(kw)).
RECURSIVE KeywordCount_EveryOccurrence(_, _)
KeywordCount_EveryOccurrence(keywords, text_lower) ==
    IF keywords = << >> THEN 0
    ELSE Occurrences(Head(keywords), text_lower)
         + KeywordCount_EveryOccurrence(Tail(keywords), text_lower)

\* sum(1 for kw in keywords if kw in text_lower)
KeywordCount(keywords, text_lower) ==
    Cardinality({i \in 1..Len(keywords) : In(keywords[i], text_lower)})

Max3(a, b, c) ==
    IF a >= b /\ a >= c THEN a ELSE IF b >= c THEN b ELSE c

\* A variant whose thresholds are >= 40.
KeywordLabel_AtLeast40(left_percent, right_percent, neutral_percent, total_count) ==
    LET max_percent == Max3(left_percent, right_percent, neutral_percent)
    IN  IF max_percent = left_percent /\ left_percent >= 40 * total_count
        THEN "Left-Leaning"
        ELSE IF max_percent = right_percent
                /\ right_percent >= 40 * total_count
        THEN "Right-Leaning"
        ELSE IF neutral_percent >= 40 * total_count
        THEN "Neutral/Balanced"
        ELSE "Mixed/Unclear"

\* A variant that tests the right share before the left one.
KeywordLabel_RightFirst(left_percent, right_percent, neutral_percent, total_count) ==
    LET max_percent == Max3(left_percent, right_percent, neutral_percent)
    IN  IF max_percent = right_percent /\ right_percent > 40 * total_count
        THEN "Right-Leaning"
        ELSE IF max_percent = left_percent /\ left_percent > 40 * total_count
        THEN "Left-Leaning"
        ELSE IF neutral_percent > 40 * total_count
        THEN "Neutral/Balanced"
        ELSE "Mixed/Unclear"

\* The label of lines 225-232 from the three numerators over total_count.
KeywordLabel(left_percent, right_percent, neutral_percent, total_count) ==
    LET max_percent == Max3(left_percent, right_percent, neutral_percent)
    IN  IF max_percent = left_percent /\ left_percent > 40 * total_count
        THEN "Left-Leaning"
        ELSE IF max_percent = right_percent /\ right_percent > 40 * total_count
        THEN "Right-Leaning"
        ELSE IF neutral_percent > 40 * total_count
        THEN "Neutral/Balanced"
        ELSE "Mixed/Unclear"

KeywordRecord(left_count, right_count, neutral_count) ==
    LET total_count == left_count + right_count + neutral_count
        left_percent == 100 * left_count
        right_percent == 100 * right_count
        neutral_percent == 100 * neutral_count
        max_percent == Max3(left_percent, right_percent, neutral_percent)
    IN  IF total_count = 0
        THEN [left |-> 3333, right |-> 3333, neutral |-> 3334,
              overall_bias |-> "Neutral (No clear indicators)",
              method |-> KeywordMethod, confidence |-> 3334]
        ELSE [left |-> Round2(left_percent, total_count),
              right |-> Round2(right_percent, total_count),
              neutral |-> Round2(neutral_percent, total_count),
              overall_bias |-> KeywordLabel(left_percent, right_percent,
                                            neutral_percent, total_count),
              method |-> KeywordMethod,
              confidence |-> Round2(max_percent, total_count)]

\* A variant without the total_count == 0 case: the division raises.
detect_with_keywords_NoZeroCase(t) ==
    LET text_lower == Lower(t)
        left_count == KeywordCount(left_keywords, text_lower)
        right_count == KeywordCount(right_keywords, text_lower)
        neutral_count == KeywordCount(neutral_keywords, text_lower)
    IN  IF left_count + right_count + neutral_count = 0
        THEN Raised
        ELSE Returned(KeywordRecord(left_count, right_count, neutral_count),
                      << left_count, right_count, neutral_count >>)

detect_with_keywords(t) ==
    LET text_lower == Lower(t)
        left_count == KeywordCount(left_keywords, text_lower)
        right_count == KeywordCount(right_keywords, text_lower)
        neutral_count == KeywordCount(neutral_keywords, text_lower)
    IN  Returned(KeywordRecord(left_count, right_count, neutral_count),
                 << left_count, right_count, neutral_count >>)

(***************************************************************************)
(* _detect_with_model.  probs[i] is the numerator over den of the          *)
(* probability of class i-1, and a bias score is 100 * probs[i] over den.  *)
(* bias_scores is the dict as the sequence of its items in insertion       *)
(* order.                                                                  *)
(***************************************************************************)
Item(k, v) == [k |-> k, v |-> v]

\* A variant of the binary mapping that also gives the biased class to left.
BinaryScores_LeftFromBiased(probs) ==
    << Item("left", 100 * probs[2]), Item("neutral", 100 * probs[1]),
       Item("right", 100 * probs[2]) >>

\* A variant of the binary mapping with the two class indices exchanged.
BinaryScores_IndicesExchanged(probs) ==
    << Item("left", 0), Item("neutral", 100 * probs[2]),
       Item("right", 100 * probs[1]) >>

\* Lines 125-132: the dict for 2 labels.
BinaryScores(probs) ==
    << Item("left", 0), Item("neutral", 100 * probs[1]),
       Item("right", 100 * probs[2]) >>

\* Lines 133-159: the dict for 3 labels.
ThreeClassScores(probs) ==
    LET label_0 == Lower(id2label[1])
    IN  IF In("left", label_0) \/ In("liberal", label_0)
        THEN << Item("left", 100 * probs[1]),
                Item("neutral", 100 * probs[2]),
                Item("right", 100 * probs[3]) >>
        ELSE IF In("right", label_0) \/ In("conservative", label_0)
        THEN << Item("right", 100 * probs[1]),
                Item("neutral", 100 * probs[2]),
                Item("left", 100 * probs[3]) >>
        ELSE << Item("left", 100 * probs[1]),
                Item("neutral", 100 * probs[2]),
                Item("right", 100 * probs[3]) >>

BiasScores(probs) ==
    IF num_labels = 2 THEN BinaryScores(probs) ELSE ThreeClassScores(probs)

\* max(bias_scores.items(), key=lambda x: x[1]): the first item of the
\* largest value.
MaxCategory(bias_scores) ==
    LET best == CHOOSE i \in 1..Len(bias_scores) :
                    /\ \A j \in 1..Len(bias_scores) :
                           bias_scores[j].v <= bias_scores[i].v
                    /\ \A j \in 1..(i - 1) :
                           bias_scores[j].v < bias_scores[i].v
    IN  bias_scores[best]

\* A variant whose strong threshold is >= 50.
ModelLabel_AtLeast50(max_category, den) ==
    IF max_category.v >= 50 * den
    THEN IF max_category.k = "left" THEN "Left-Leaning"
         ELSE IF max_category.k = "right" THEN "Right-Leaning"
         ELSE "Neutral/Balanced"
    ELSE IF max_category.v > 40 * den
    THEN IF max_category.k = "left" THEN "Slightly Left-Leaning"
         ELSE IF max_category.k = "right" THEN "Slightly Right-Leaning"
         ELSE "Mostly Neutral"
    ELSE "Mixed/Unclear"

\* Lines 168-183.
ModelLabel(max_category, den) ==
    IF max_category.v > 50 * den
    THEN IF max_category.k = "left" THEN "Left-Leaning"
         ELSE IF max_category.k = "right" THEN "Right-Leaning"
         ELSE "Neutral/Balanced"
    ELSE IF max_category.v > 40 * den
    THEN IF max_category.k = "left" THEN "Slightly Left-Leaning"
         ELSE IF max_category.k = "right" THEN "Slightly Right-Leaning"
         ELSE "Mostly Neutral"
    ELSE "Mixed/Unclear"

Score(bias_scores, key) ==
    LET i == CHOOSE j \in 1..Len(bias_scores) : bias_scores[j].k = key
    IN  bias_scores[i].v

\* A variant whose confidence is the largest probability, not its percentage.
ModelRecord_ConfidenceUnscaled(bias_scores, den) ==
    LET max_category == MaxCategory(bias_scores)
    IN  [left |-> Round2(Score(bias_scores, "left"), den),
         right |-> Round2(Score(bias_scores, "right"), den),
         neutral |-> Round2(Score(bias_scores, "neutral"), den),
         overall_bias |-> ModelLabel(max_category, den),
         method |-> ModelMethod,
         confidence |-> Round2(max_category.v, 100 * den)]

\* Lines 165-192.
ModelRecord(bias_scores, den) ==
    LET max_category == MaxCategory(bias_scores)
    IN  [left |-> Round2(Score(bias_scores, "left"), den),
         right |-> Round2(Score(bias_scores, "right"), den),
         neutral |-> Round2(Score(bias_scores, "neutral"), den),
         overall_bias |-> ModelLabel(max_category, den),
         method |-> ModelMethod,
         confidence |-> Round2(max_category.v, den)]

\* A variant that maps the first three classes of a model of more than 3
\* labels.
ModelBranches_FirstThreeClasses(t, inf) ==
    IF num_labels >= 2
    THEN Returned(ModelRecord(BiasScores(inf.probs), inf.den), << >>)
    ELSE detect_with_keywords(t)

\* The body of the try block once tokenizer, model and softmax have
\* produced probs.
ModelBranches(t, inf) ==
    IF num_labels \in {2, 3}
    THEN Returned(ModelRecord(BiasScores(inf.probs), inf.den), << >>)
    ELSE detect_with_keywords(t)

\* A variant without the except clause.
detect_with_model_NoExcept(t, inf) ==
    IF inf.stage = "ok" THEN ModelBranches(t, inf) ELSE Raised

\* inf.stage names the statement of the try block that raised, "ok" when
\* none did.
detect_with_model(t, inf) ==
    IF inf.stage = "ok"
    THEN ModelBranches(t, inf)
    ELSE detect_with_keywords(t)

NoInference == [stage |-> "none", probs |-> << >>, den |-> 1]

\* Lines 194-197 ran in a call whose inference was inf: the except clause
\* printed its message before falling back.
PredictionErrorPrinted(inf) == model_loaded /\ inf.stage \notin {"ok", "none"}

detect_bias(t, inf) ==
    IF model_loaded
    THEN detect_with_model(t, inf)
    ELSE detect_with_keywords(t)

(***************************************************************************)
(* Inputs: the texts given to detect_bias, the models from_pretrained may  *)
(* load, and what one inference may do.                                    *)
(***************************************************************************)
Fragments ==
    { "Liberalism and UNION ", "deregulation ", "Study: Patriot law ",
      "enforcement analysis ", "Weather today ", "union study, Report; " }

RECURSIVE TextsUpTo(_)
TextsUpTo(k) ==
    IF k = 0 THEN {""}
    ELSE LET shorter == TextsUpTo(k - 1)
         IN  shorter \cup {t \o f : t \in shorter, f \in Fragments}

Texts == TextsUpTo(MaxFrags)

Digits == "0123456789"

\* {i: f'class_{i}' for i in range(n)}
ClassNames(n) == [i \in 1..n |-> "class_" \o SubSeq(Digits, i, i)]

\* The id2label __init__ builds when the config has none (lines 46-51).
DefaultId2Label(n) ==
    IF n = 2 THEN << "neutral", "biased" >>
    ELSE IF n = 3 THEN << "left", "neutral", "right" >>
    ELSE ClassNames(n)

\* model.config of the models that may be loaded.
ModelConfigs ==
    { [num_labels |-> 2, has_id2label |-> TRUE,
       id2label |-> << "NEUTRAL", "BIASED" >>],
      [num_labels |-> 2, has_id2label |-> FALSE, id2label |-> << >>],
      [num_labels |-> 2, has_id2label |-> TRUE,
       id2label |-> << "left", "right" >>],
      [num_labels |-> 3, has_id2label |-> TRUE,
       id2label |-> << "Conservative", "Center", "Liberal" >>],
      [num_labels |-> 3, has_id2label |-> TRUE,
       id2label |-> << "LABEL_0", "LABEL_1", "LABEL_2" >>],
      [num_labels |-> 3, has_id2label |-> FALSE, id2label |-> << >>],
      [num_labels |-> 1, has_id2label |-> FALSE, id2label |-> << >>],
      [num_labels |-> 4, has_id2label |-> TRUE,
       id2label |-> << "LABEL_0", "LABEL_1", "LABEL_2", "LABEL_3" >>] }

\* The statements of __init__'s try block that may raise.
LoadStages == {"device", "tokenizer", "model"}

\* The probability vectors of n classes: n numerators that sum to total.
RECURSIVE ProbVectors(_, _)
ProbVectors(n, total) ==
    IF n <= 0 THEN { << >> }
    ELSE IF n = 1 THEN { << total >> }
    ELSE UNION { { << a >> \o v : v \in ProbVectors(n - 1, total - a) } :
                 a \in 0..total }

GridDen(n) == IF n <= 3 THEN ProbDen ELSE CoarseDen

\* The statements of _detect_with_model's try block that may raise; the
\* id2label lookups are reached with 3 labels only.
InferStages(n) ==
    {"tokenizer", "model", "softmax"} \cup (IF n = 3 THEN {"id2label"} ELSE {})

Inferences(n) ==
    { [stage |-> "ok", probs |-> v, den |-> GridDen(n)] :
          v \in ProbVectors(n, GridDen(n)) }
    \cup { [stage |-> s, probs |-> << >>, den |-> 1] : s \in InferStages(n) }

(***************************************************************************)
(* The detector and its caller.                                            *)
(***************************************************************************)
\* No detector, no handler, no input yet.
Blank ==
    /\ model_loaded = FALSE
    /\ num_labels = 0
    /\ id2label = << >>
    /\ left_keywords = << >>
    /\ right_keywords = << >>
    /\ neutral_keywords = << >>
    /\ load_attempts = 0
    /\ load_error = "none"
    /\ text = ""
    /\ inference = NoInference
    /\ outcome = NoOutcome
    /\ gemini_ready = FALSE
    /\ raw_input = None
    /\ remote = None
    /\ calls = << >>
    /\ verification_result = None
    /\ summary = None
    /\ display = << >>
    /\ analyze_btn = FALSE
    /\ exit_code = None
    /\ prediction_error_printed = FALSE

Init == pc = "new" /\ Blank

\* __init__ when every statement of the try block succeeds on a model of
\* configuration cfg.
LoadSucceeds(cfg) ==
    /\ left_keywords' = LeftKeywords
    /\ right_keywords' = RightKeywords
    /\ neutral_keywords' = NeutralKeywords
    /\ load_attempts' = load_attempts + 1
    /\ num_labels' = cfg.num_labels
    /\ id2label' = IF cfg.has_id2label THEN cfg.id2label
                   ELSE DefaultId2Label(cfg.num_labels)
    /\ model_loaded' = TRUE
    /\ UNCHANGED load_error

\* A variant that builds the keyword lists inside the try block, after the
\* load.
LoadFails_LexiconAfterLoad(stage) ==
    /\ load_attempts' = load_attempts + 1
    /\ load_error' = stage
    /\ model_loaded' = FALSE
    /\ UNCHANGED << num_labels, id2label, left_keywords, right_keywords,
                    neutral_keywords >>

\* __init__ when the statement named stage raises: lines 56-59.
LoadFails(stage) ==
    /\ left_keywords' = LeftKeywords
    /\ right_keywords' = RightKeywords
    /\ neutral_keywords' = NeutralKeywords
    /\ load_attempts' = load_attempts + 1
    /\ load_error' = stage
    /\ model_loaded' = FALSE
    /\ UNCHANGED << num_labels, id2label >>

\* BiasDetectorHF() with a load that succeeds.
Construct ==
    /\ pc = "new"
    /\ \E cfg \in ModelConfigs : LoadSucceeds(cfg)
    /\ pc' = "ready"
    /\ UNCHANGED << text, inference, outcome, frontVars >>
    /\ UNCHANGED prediction_error_printed

\* BiasDetectorHF() with a load that raises.
ConstructLoadFails ==
    /\ pc = "new"
    /\ \E stage \in LoadStages : LoadFails(stage)
    /\ pc' = "ready"
    /\ UNCHANGED << text, inference, outcome, frontVars >>
    /\ UNCHANGED prediction_error_printed

\* The caller picks a text.
Call ==
    /\ pc = "ready"
    /\ \E t \in Texts : text' = t
    /\ pc' = "called"
    /\ UNCHANGED << detectorVars, inference, outcome, frontVars >>
    /\ UNCHANGED prediction_error_printed

\* A variant whose except clause also gives up on the model for the calls
\* that follow.
DetectBias_GivesUpOnModel ==
    /\ pc = "called"
    /\ \E inf \in (IF model_loaded THEN Inferences(num_labels)
                   ELSE {NoInference}) :
          /\ inference' = inf
          /\ outcome' = detect_bias(text, inf)
    /\ pc' = "returned"
    /\ model_loaded' = (model_loaded /\ ~PredictionErrorPrinted(inference'))
    /\ prediction_error_printed' =
           (prediction_error_printed \/ PredictionErrorPrinted(inference'))
    /\ UNCHANGED << num_labels, id2label, left_keywords, right_keywords,
                    neutral_keywords, load_attempts, load_error, text,
                    frontVars >>

\* detect_bias(text) runs to its end.
DetectBias ==
    /\ pc = "called"
    /\ \E inf \in (IF model_loaded THEN Inferences(num_labels)
                   ELSE {NoInference}) :
          /\ inference' = inf
          /\ outcome' = detect_bias(text, inf)
    /\ pc' = "returned"
    /\ UNCHANGED << detectorVars, text, frontVars >>
    /\ prediction_error_printed' =
           (prediction_error_printed \/ PredictionErrorPrinted(inference'))

\* The caller is done with the record.
Discard ==
    /\ pc = "returned"
    /\ pc' = "ready"
    /\ text' = ""
    /\ inference' = NoInference
    /\ outcome' = NoOutcome
    /\ UNCHANGED << detectorVars, frontVars >>
    /\ UNCHANGED prediction_error_printed

Next == Construct \/ ConstructLoadFails \/ Call \/ DetectBias \/ Discard

Spec == Init /\ [][Next]_vars

(***************************************************************************)
(* GeminiHandler.  A generate_content call, reading response.text          *)
(* included, either gives the response text or raises an exception whose   *)
(* str() is error.                                                         *)
(***************************************************************************)
Ok(v) == [kind |-> "return", value |-> v]

RemoteText(t) == [ok |-> TRUE, text |-> t, error |-> ""]
RemoteError(e) == [ok |-> FALSE, text |-> "", error |-> e]

\* s.split(sep) for a one-character sep.
RECURSIVE Split(_, _)
Split(s, sep) ==
    LET i == IndexOf(sep, s)
    IN  IF i = 0 THEN << s >>
        ELSE << SubSeq(s, 1, i - 1) >> \o Split(SubSeq(s, i + 1, Len(s)), sep)

\* s.replace(old, '')
RECURSIVE Remove(_, _)
Remove(s, old) ==
    LET hits == {i \in 1..(Len(s) - Len(old) + 1) :
                    SubSeq(s, i, i + Len(old) - 1) = old}
    IN  IF hits = {} THEN s
        ELSE LET first == CHOOSE i \in hits : \A j \in hits : i <= j
             IN  SubSeq(s, 1, first - 1)
                 \o Remove(SubSeq(s, first + Len(old), Len(s)), old)

\* The loop of lines 53-57 over the remaining lines.
RECURSIVE ParseLines(_, _, _)
ParseLines(lines, status, analysis) ==
    IF lines = << >> THEN [status |-> status, analysis |-> analysis]
    ELSE LET line == Head(lines)
         IN  IF StartsWith(line, "STATUS:")
             THEN ParseLines(Tail(lines), Strip(Remove(line, "STATUS:")),
                             analysis)
             ELSE IF StartsWith(line, "ANALYSIS:")
             THEN ParseLines(Tail(lines), status,
                             Strip(Remove(line, "ANALYSIS:")))
             ELSE ParseLines(Tail(lines), status, analysis)

\* A variant without the try block.
verify_news_NoTry(news_text, rem) ==
    IF rem.ok
    THEN LET parsed == ParseLines(Split(Strip(rem.text), "\n"), "UNKNOWN",
                                  "Unable to analyze")
         IN  Ok([is_true |-> parsed.status, analysis |-> parsed.analysis,
                 error |-> None])
    ELSE Raised

verify_news(news_text, rem) ==
    IF rem.ok
    THEN LET parsed == ParseLines(Split(Strip(rem.text), "\n"), "UNKNOWN",
                                  "Unable to analyze")
         IN  Ok([is_true |-> parsed.status, analysis |-> parsed.analysis,
                 error |-> None])
    ELSE Ok([is_true |-> "ERROR", analysis |-> "",
             error |-> Some(rem.error)])

\* A variant without the try block.
summarize_news_NoTry(news_text, rem) ==
    IF rem.ok THEN Ok(Strip(rem.text)) ELSE Raised

summarize_news(news_text, rem) ==
    IF rem.ok
    THEN Ok(Strip(rem.text))
    ELSE Ok("Error generating summary: " \o rem.error)

\* GeminiHandler(): api_key is os.getenv('GEMINI_API_KEY'), None when the
\* variable is not set.
GeminiHandlerInit(api_key) ==
    IF api_key = None \/ api_key = Some("") THEN Raised ELSE Ok("handler")

\* if x: for an optional string x.
Truthy(x) == x # None /\ x # Some("")

(***************************************************************************)
(* Inputs of the two programs.                                             *)
(***************************************************************************)
ApiKeys == { None, Some(""), Some("secret") }

\* What generate_content may do.
RemoteOutcomes ==
    { RemoteError(""), RemoteError("429 quota exceeded"),
      RemoteText("  STATUS: LIKELY TRUE\nANALYSIS: Plausible, STATUS: open. \n"),
      RemoteText("The article reports a deregulation study.") }

\* What the user may type at the News prompt.
UserInputs ==
    { "", "   ", " Quit", "q", "EXIT ", " Liberalism and UNION ",
      "deregulation union study, Report; " }

(***************************************************************************)
(* main() of src/main.py.                                                  *)
(***************************************************************************)
Show(message) == display' = Append(display, message)

\* Lines 45-56, when GeminiHandler() raises.
MainInitFails ==
    /\ pc = "main_start"
    /\ \E api_key \in ApiKeys : GeminiHandlerInit(api_key).kind = "raise"
    /\ Show("Error initializing system")
    /\ exit_code' = Some(1)
    /\ pc' = "exited"
    /\ UNCHANGED << detectorVars, text, inference, outcome, gemini_ready, analyze_btn,
                    raw_input, remote, calls, verification_result, summary >>
    /\ UNCHANGED prediction_error_printed

\* Lines 45-53: GeminiHandler(), then BiasDetectorHF(), whose load succeeds
\* or fails.
MainInit ==
    /\ pc = "main_start"
    /\ \E api_key \in ApiKeys : GeminiHandlerInit(api_key).kind = "return"
    /\ gemini_ready' = TRUE
    /\ \/ \E cfg \in ModelConfigs : LoadSucceeds(cfg)
       \/ \E stage \in LoadStages : LoadFails(stage)
    /\ Show("System initialized successfully!")
    /\ pc' = "prompt"
    /\ UNCHANGED << text, inference, outcome, raw_input, remote, calls, analyze_btn,
                    verification_result, summary, exit_code >>
    /\ UNCHANGED prediction_error_printed

\* Lines 63-71: one line is read; quit ends the loop, an empty one is
\* refused, any other starts an iteration.
MainInput ==
    /\ pc = "prompt"
    /\ \E typed \in UserInputs :
          LET user_input == Strip(typed)
          IN  /\ raw_input' = Some(typed)
              /\ IF Lower(user_input) \in {"quit", "exit", "q"}
                 THEN /\ display' = << "Thank you for using AI Bias Detector!" >>
                      /\ exit_code' = Some(0)
                      /\ pc' = "exited"
                      /\ text' = ""
                 ELSE IF user_input = ""
                 THEN /\ display' = << "Please enter some text!" >>
                      /\ pc' = "prompt"
                      /\ text' = ""
                      /\ UNCHANGED exit_code
                 ELSE /\ display' = << "Processing your input..." >>
                      /\ pc' = "verify"
                      /\ text' = user_input
                      /\ UNCHANGED exit_code
    /\ remote' = None
    /\ calls' = << >>
    /\ verification_result' = None
    /\ summary' = None
    /\ inference' = NoInference
    /\ outcome' = NoOutcome
    /\ UNCHANGED << detectorVars, gemini_ready, analyze_btn >>
    /\ UNCHANGED prediction_error_printed

\* Lines 79-86.
MainVerify ==
    /\ pc = "verify"
    /\ \E rem \in RemoteOutcomes :
          LET res == verify_news(text, rem)
          IN  /\ remote' = Some(rem)
              /\ IF res.kind = "raise"
                 THEN /\ pc' = "crashed"
                      /\ exit_code' = Some(1)
                      /\ UNCHANGED << verification_result, display >>
                 ELSE /\ verification_result' = Some(res.value)
                      /\ UNCHANGED exit_code
                      /\ IF Truthy(res.value.error)
                         THEN Show("Error: " \o res.value.error[1])
                              /\ pc' = "prompt"
                         ELSE Show("Verification Status: " \o res.value.is_true)
                              /\ pc' = "detect"
    /\ calls' = Append(calls, "verify_news")
    /\ UNCHANGED << detectorVars, text, inference, outcome, gemini_ready, analyze_btn,
                    raw_input, summary >>
    /\ UNCHANGED prediction_error_printed

\* Lines 93-100.
MainDetect ==
    /\ pc = "detect"
    /\ \E inf \in (IF model_loaded THEN Inferences(num_labels)
                   ELSE {NoInference}) :
          LET res == detect_bias(text, inf)
          IN  /\ inference' = inf
              /\ outcome' = res
              /\ IF res.kind = "raise"
                 THEN /\ pc' = "crashed"
                      /\ exit_code' = Some(1)
                      /\ UNCHANGED display
                 ELSE /\ Show("Overall Lean: " \o res.value.overall_bias)
                      /\ pc' = "summarize"
                      /\ UNCHANGED exit_code
    /\ calls' = Append(calls, "detect_bias")
    /\ UNCHANGED << detectorVars, text, gemini_ready, raw_input, remote, analyze_btn,
                    verification_result, summary >>
    /\ prediction_error_printed' =
           (prediction_error_printed \/ PredictionErrorPrinted(inference'))

\* Lines 107-108.
MainSummarize ==
    /\ pc = "summarize"
    /\ \E rem \in RemoteOutcomes :
          LET res == summarize_news(text, rem)
          IN  /\ remote' = Some(rem)
              /\ IF res.kind = "raise"
                 THEN /\ pc' = "crashed"
                      /\ exit_code' = Some(1)
                      /\ UNCHANGED << summary, display >>
                 ELSE /\ summary' = Some(res.value)
                      /\ Show("Summary: " \o res.value)
                      /\ pc' = "chart"
                      /\ UNCHANGED exit_code
    /\ calls' = Append(calls, "summarize_news")
    /\ UNCHANGED << detectorVars, text, inference, outcome, gemini_ready, analyze_btn,
                    raw_input, verification_result >>
    /\ UNCHANGED prediction_error_printed

\* Lines 112-125: the chart question, then the question whether to go on.
MainContinue ==
    /\ pc = "chart"
    /\ \E show_chart \in {"y", "n"}, continue_prompt \in {"y", "n"} :
          IF continue_prompt # "y"
          THEN /\ Show("Thank you for using AI Bias Detector!")
               /\ exit_code' = Some(0)
               /\ pc' = "exited"
          ELSE /\ pc' = "prompt"
               /\ UNCHANGED << display, exit_code >>
    /\ UNCHANGED << detectorVars, text, inference, outcome, gemini_ready, analyze_btn,
                    raw_input, remote, calls, verification_result, summary >>
    /\ UNCHANGED prediction_error_printed

(***************************************************************************)
(* The script of src/app.py.  Streamlit runs it from the top each time a   *)
(* widget changes; load_detector and load_gemini_handler are cached, so    *)
(* each constructs its object in the first run that gets that far.         *)
(***************************************************************************)
\* A body of more than 100 characters.
LongBody ==
    "Officials say the deregulation bill protects the free market, while "
    \o "critics call for social justice and a higher minimum wage."

\* What requests.get and BeautifulSoup may give for a URL: an exception, or
\* the text of the page's paragraphs.
Fetches ==
    { RemoteError("timeout"), RemoteText(""), RemoteText("Study: Patriot law "),
      RemoteText(LongBody) }

\* Lines 219-234.
extract_text_from_url(url, fetched) ==
    IF fetched.ok
    THEN IF Strip(fetched.text) # "" /\ Len(fetched.text) > 100
         THEN Some(fetched.text)
         ELSE None
    ELSE None

\* The text area's content, and the URL field's.
PastedTexts == { "", " \n ", "Liberalism and UNION ", "Weather today " }
Urls == { "", "https://example.com/article" }

\* Lines 215-216: the two cached loaders.  The detector is built once; a
\* GeminiHandler that cannot be built ends the run with its exception.
AppLoad ==
    /\ pc \in {"app_start", "app_exception"}
    /\ IF load_attempts = 0
       THEN \/ \E cfg \in ModelConfigs : LoadSucceeds(cfg)
            \/ \E stage \in LoadStages : LoadFails(stage)
       ELSE UNCHANGED detectorVars
    /\ \E api_key \in ApiKeys :
          IF GeminiHandlerInit(api_key).kind = "raise"
          THEN /\ display' = << "ValueError: GEMINI_API_KEY not found in .env file" >>
               /\ pc' = "app_exception"
               /\ UNCHANGED gemini_ready
          ELSE /\ display' = << >>
               /\ pc' = "app_page"
               /\ gemini_ready' = TRUE
    /\ UNCHANGED << text, inference, outcome, raw_input, remote, calls,
                    verification_result, summary, analyze_btn, exit_code >>
    /\ UNCHANGED prediction_error_printed

\* Lines 284-300: the branch on the Analyze button, text being the article
\* text of this run and shown what the input section displayed.
AppAnalyze(typed, t, shown, pressed) ==
    /\ raw_input' = Some(typed)
    /\ text' = t
    /\ analyze_btn' = pressed
    /\ IF pressed /\ Strip(t) = ""
       THEN /\ display' = Append(shown, "Input Required")
            /\ pc' = "app_page"
       ELSE IF pressed
       THEN /\ display' = Append(shown, "Analysis in Progress")
            /\ pc' = "app_detect"
       ELSE /\ display' = shown
            /\ pc' = "app_page"

\* Lines 236-300: a run with the widgets' values, up to the branch on the
\* Analyze button.
AppRun ==
    /\ pc = "app_page"
    /\ \E pressed \in BOOLEAN :
          \/ \E pasted \in PastedTexts :
                AppAnalyze(pasted, pasted, << >>, pressed)
          \/ AppAnalyze("", "", << >>, pressed)
          \/ \E url \in Urls \ {""}, fetched \in Fetches :
                LET extracted == extract_text_from_url(url, fetched)
                IN  IF extracted = None
                    THEN AppAnalyze(url, "", << "Unable to extract content" >>,
                                    pressed)
                    ELSE AppAnalyze(url, extracted[1], << >>, pressed)
    /\ remote' = None
    /\ calls' = << >>
    /\ summary' = None
    /\ inference' = NoInference
    /\ outcome' = NoOutcome
    /\ UNCHANGED << detectorVars, gemini_ready, verification_result,
                    exit_code >>
    /\ UNCHANGED prediction_error_printed

\* Line 303.
AppDetect ==
    /\ pc = "app_detect"
    /\ \E inf \in (IF model_loaded THEN Inferences(num_labels)
                   ELSE {NoInference}) :
          LET res == detect_bias(text, inf)
          IN  /\ inference' = inf
              /\ outcome' = res
              /\ IF res.kind = "raise"
                 THEN /\ display' = << "Exception" >>
                      /\ pc' = "app_crashed"
                 ELSE /\ pc' = "app_summarize"
                      /\ UNCHANGED display
    /\ calls' = Append(calls, "detect_bias")
    /\ UNCHANGED << detectorVars, text, gemini_ready, raw_input, remote,
                    verification_result, summary, analyze_btn, exit_code >>
    /\ prediction_error_printed' =
           (prediction_error_printed \/ PredictionErrorPrinted(inference'))

\* Lines 306-396.
AppSummarize ==
    /\ pc = "app_summarize"
    /\ \E rem \in RemoteOutcomes :
          LET res == summarize_news(text, rem)
          IN  /\ remote' = Some(rem)
              /\ IF res.kind = "raise"
                 THEN /\ display' = << "Exception" >>
                      /\ pc' = "app_crashed"
                      /\ UNCHANGED summary
                 ELSE /\ summary' = Some(res.value)
                      /\ display' = << "Analysis Results",
                                       outcome.value.overall_bias, res.value >>
                      /\ pc' = "app_page"
    /\ calls' = Append(calls, "summarize_news")
    /\ UNCHANGED << detectorVars, text, inference, outcome, gemini_ready,
                    raw_input, verification_result, analyze_btn, exit_code >>
    /\ UNCHANGED prediction_error_printed

(***************************************************************************)
(* The two programs: the process is one or the other.                      *)
(***************************************************************************)
InitPrograms == pc \in {"main_start", "app_start"} /\ Blank

NextPrograms ==
    \/ MainInitFails
    \/ MainInit
    \/ MainInput
    \/ MainVerify
    \/ MainDetect
    \/ MainSummarize
    \/ MainContinue
    \/ AppLoad
    \/ AppRun
    \/ AppDetect
    \/ AppSummarize

SpecPrograms == InitPrograms /\ [][NextPrograms]_vars

(***************************************************************************)
(* Properties of detect_bias.                                              *)
(***************************************************************************)
\* A detect_bias call has ended by returning a record.
HasRecord == pc = "returned" /\ outcome.kind = "return"

\* The keyword path ran in the call that has ended.
KeywordPathRan == HasRecord /\ outcome.counts # << >>

PercentSum == outcome.value.left + outcome.value.neutral + outcome.value.right

\* C1: whatever the text and whatever the model did, detect_bias returns a
\* record whose left + neutral + right is within one hundredth of 100.
C1_SumWithinTolerance ==
    pc = "returned" =>
        /\ outcome.kind = "return"
        /\ PercentSum >= 9999
        /\ PercentSum <= 10001

\* A record whose three rounded fields do not add up to exactly 100.
C1_Witness == HasRecord /\ PercentSum # 10000

\* No term of the lexicon occurs in s.
NoTermIn(lexicon, s) == \A i \in 1..Len(lexicon) : ~In(lexicon[i], s)

\* C2: with no model and no lexicon term in the text, detect_bias returns
\* (it does not raise) the triple 33.33 / 33.33 / 33.34 with a label that
\* begins with "Neutral" and confidence 33.34.
C2_ZeroHitsUniform ==
    (pc = "returned" /\ ~model_loaded
       /\ NoTermIn(LeftKeywords \o RightKeywords \o NeutralKeywords,
                   Lower(text)))
    => /\ outcome.kind = "return"
       /\ outcome.value.left = 3333
       /\ outcome.value.right = 3333
       /\ outcome.value.neutral = 3334
       /\ StartsWith(outcome.value.overall_bias, "Neutral")
       /\ outcome.value.confidence = 3334

\* A non-empty text without lexicon terms was scored without a model.
C2_Witness ==
    /\ HasRecord
    /\ ~model_loaded
    /\ text # ""
    /\ outcome.counts = << 0, 0, 0 >>

\* C3 as stated: with no model, more left than right keywords give
\* "Left-Leaning" and left > right, and more right than left keywords give
\* "Right-Leaning" and right > left, whatever the neutral count.
C3_DominanceDecidesLabel ==
    (KeywordPathRan /\ ~model_loaded) =>
        LET left_count == outcome.counts[1]
            right_count == outcome.counts[2]
        IN  /\ left_count > right_count =>
                /\ outcome.value.overall_bias = "Left-Leaning"
                /\ outcome.value.left > outcome.value.right
            /\ right_count > left_count =>
                /\ outcome.value.overall_bias = "Right-Leaning"
                /\ outcome.value.right > outcome.value.left

\* C3 amended: with no model, more left than right keywords give
\* left > right, and the label is "Left-Leaning" exactly when the left count
\* is also at least the neutral count and more than 40% of all hits; the
\* same with left and right exchanged.
C3_DominanceWithinNeutral ==
    (KeywordPathRan /\ ~model_loaded) =>
        LET left_count == outcome.counts[1]
            right_count == outcome.counts[2]
            neutral_count == outcome.counts[3]
            total_count == left_count + right_count + neutral_count
        IN  /\ left_count > right_count =>
                /\ outcome.value.left > outcome.value.right
                /\ outcome.value.overall_bias = "Left-Leaning"
                   <=> (left_count >= neutral_count
                        /\ 100 * left_count > 40 * total_count)
            /\ right_count > left_count =>
                /\ outcome.value.right > outcome.value.left
                /\ outcome.value.overall_bias = "Right-Leaning"
                   <=> (right_count >= neutral_count
                        /\ 100 * right_count > 40 * total_count)

\* More left than right keywords, neutral keywords present, "Left-Leaning".
C3_Witness ==
    /\ KeywordPathRan
    /\ ~model_loaded
    /\ outcome.counts[1] > outcome.counts[2]
    /\ outcome.counts[3] > 0
    /\ outcome.value.overall_bias = "Left-Leaning"

\* C4: when a statement of inference raises in a call on a loaded model,
\* the call returns the keyword-only record of the same text, whose method
\* is "Keyword-based (Fallback)".
C4_InferenceFailureFallsBack ==
    (pc = "returned" /\ model_loaded /\ inference.stage # "ok") =>
        /\ outcome.kind = "return"
        /\ outcome = detect_with_keywords(text)
        /\ outcome.value.method = KeywordMethod
        /\ outcome.value.method # ModelMethod

\* The softmax raised on a text that holds lexicon terms.
C4_Witness ==
    /\ HasRecord
    /\ model_loaded
    /\ inference.stage = "softmax"
    /\ outcome.counts \notin {<< >>, << 0, 0, 0 >>}

\* C5: after a load that failed, the detector exists with its three keyword
\* lists and model_loaded false, nothing is loaded again, and every call
\* returns a keyword record without an inference.
C5_LoadFailureKeywordOnly ==
    load_error # "none" =>
        /\ pc # "new"
        /\ ~model_loaded
        /\ left_keywords = LeftKeywords
        /\ right_keywords = RightKeywords
        /\ neutral_keywords = NeutralKeywords
        /\ load_attempts = 1
        /\ inference = NoInference
        /\ pc = "returned" =>
              /\ outcome.kind = "return"
              /\ outcome.value.method = KeywordMethod
              /\ outcome.counts # << >>

\* The tokenizer failed to load and a later call found a right keyword.
C5_Witness ==
    /\ load_error = "tokenizer"
    /\ HasRecord
    /\ outcome.counts[2] > 0

\* The category that class i of the loaded 3-label model stands for.
CategoryOfClass(i) ==
    IF id2label = << "Conservative", "Center", "Liberal" >>
    THEN << "right", "neutral", "left" >>[i]
    ELSE << "left", "neutral", "right" >>[i]

StrongLabel(c) ==
    IF c = "left" THEN "Left-Leaning"
    ELSE IF c = "right" THEN "Right-Leaning" ELSE "Neutral/Balanced"

SlightLabel(c) ==
    IF c = "left" THEN "Slightly Left-Leaning"
    ELSE IF c = "right" THEN "Slightly Right-Leaning" ELSE "Mostly Neutral"

\* The probability (its numerator) the model gave to category c.
ProbOf(c) == inference.probs[CHOOSE i \in 1..3 : CategoryOfClass(i) = c]

\* C6: on the model path with 3 classes, each returned percentage is the
\* class probability times 100 (rounded to 2 decimals), and the label comes
\* from the largest percentage m and a category c that has it: the strong
\* label of c when m > 50, the slight label of c when 40 < m <= 50,
\* "Mixed/Unclear" when m <= 40.  Probabilities [0.1, 0.85, 0.05] over
\* [left, neutral, right] give "Neutral/Balanced" and neutral = 85.0.
C6_ThreeClassThresholds ==
    (pc = "returned" /\ model_loaded /\ num_labels = 3
       /\ inference.stage = "ok") =>
        LET den == inference.den
            m == Max3(ProbOf("left"), ProbOf("neutral"), ProbOf("right"))
            largest == {c \in {"left", "neutral", "right"} : ProbOf(c) = m}
            v == outcome.value
        IN  /\ outcome.kind = "return"
            /\ v.method = ModelMethod
            /\ v.left = Round2(100 * ProbOf("left"), den)
            /\ v.neutral = Round2(100 * ProbOf("neutral"), den)
            /\ v.right = Round2(100 * ProbOf("right"), den)
            /\ 100 * m > 50 * den =>
                  \E c \in largest : v.overall_bias = StrongLabel(c)
            /\ (100 * m <= 50 * den /\ 100 * m > 40 * den) =>
                  \E c \in largest : v.overall_bias = SlightLabel(c)
            /\ 100 * m <= 40 * den => v.overall_bias = "Mixed/Unclear"
            /\ (/\ 100 * ProbOf("left") = 10 * den
                /\ 100 * ProbOf("neutral") = 85 * den
                /\ 100 * ProbOf("right") = 5 * den) =>
                  /\ v.overall_bias = "Neutral/Balanced"
                  /\ v.neutral = 8500

\* The stub model of the spec: [0.1, 0.85, 0.05] over [left, neutral, right].
C6_Witness ==
    /\ HasRecord
    /\ model_loaded
    /\ id2label = << "left", "neutral", "right" >>
    /\ inference.stage = "ok"
    /\ 100 * inference.probs[1] = 10 * inference.den
    /\ 100 * inference.probs[2] = 85 * inference.den
    /\ 100 * inference.probs[3] = 5 * inference.den
    /\ outcome.value.overall_bias = "Neutral/Balanced"

\* The terms of a lexicon, as a set.
Terms(lexicon) == {lexicon[i] : i \in 1..Len(lexicon)}

\* C7: each keyword count of a call is the number of distinct terms of its
\* lexicon that occur somewhere in the lowercased text, so it is at most the
\* size of the lexicon; "Liberalism and UNION " holds the two left terms
\* liberal and union, and a second occurrence of union adds nothing.
C7_DistinctTermCount ==
    KeywordPathRan =>
        LET text_lower == Lower(text)
            Hits(lexicon) ==
                Cardinality({kw \in Terms(lexicon) : In(kw, text_lower)})
        IN  /\ outcome.counts = << Hits(LeftKeywords), Hits(RightKeywords),
                                   Hits(NeutralKeywords) >>
            /\ outcome.counts[1] <= Len(LeftKeywords)
            /\ outcome.counts[2] <= Len(RightKeywords)
            /\ outcome.counts[3] <= Len(NeutralKeywords)
            /\ text = "Liberalism and UNION " =>
                  outcome.counts = << 2, 0, 0 >>
            /\ text = "union study, Report; Liberalism and UNION " =>
                  outcome.counts = << 2, 0, 2 >>

\* A text in which the left term union occurs twice, once in capitals.
C7_Witness ==
    /\ KeywordPathRan
    /\ text = "union study, Report; Liberalism and UNION "

(***************************************************************************)
(* Properties of the two programs.                                         *)
(***************************************************************************)
InMain ==
    pc \in {"main_start", "prompt", "verify", "detect", "summarize", "chart",
            "exited", "crashed"}

InApp ==
    pc \in {"app_start", "app_exception", "app_page", "app_detect",
            "app_summarize", "app_crashed"}

\* f was called for the current input.
Called(f) == \E i \in 1..Len(calls) : calls[i] = f

\* f is the last function called for the current input.
LastCalled(f) == calls # << >> /\ calls[Len(calls)] = f

\* The process ended, or the script run was cut short, by an error.
Fatal ==
    \/ pc \in {"crashed", "app_crashed", "app_exception"}
    \/ pc = "exited" /\ exit_code # Some(0)

\* C8 as stated: neither program is ever ended by an error.
C8_NoFailureIsFatal == ~Fatal

\* C8 amended: the only error that ends the command-line program (status
\* 1, after the message "Error initializing system") or cuts a run of the
\* web script short is a GeminiHandler that cannot be built.  After a model
\* load failure or an inference failure detect_bias still gives a record,
\* after a verification failure the loop shows the error and goes on, and
\* after a summarization failure the summary shown is the error string.
C8_OnlyHandlerInitIsFatal ==
    /\ Fatal =>
          /\ ~gemini_ready
          /\ calls = << >>
          /\ \/ pc = "app_exception"
             \/ /\ pc = "exited"
                /\ exit_code = Some(1)
                /\ display = << "Error initializing system" >>
    /\ Called("detect_bias") =>
          /\ outcome.kind = "return"
          /\ (load_error # "none" \/ inference.stage \notin {"ok", "none"}) =>
                outcome.value.method = KeywordMethod
    /\ (LastCalled("verify_news") /\ ~remote[1].ok) =>
          /\ pc \in {"prompt", "detect"}
          /\ verification_result[1].is_true = "ERROR"
          /\ display[Len(display)] \in
                 {"Error: " \o remote[1].error, "Verification Status: ERROR"}
    /\ (LastCalled("summarize_news") /\ ~remote[1].ok) =>
          /\ pc \in {"chart", "prompt", "exited", "app_page"}
          /\ StartsWith(summary[1], "Error generating summary: ")
          /\ \E i \in 1..Len(display) : In(summary[1], display[i])

\* The command-line loop went through a model load failure and a
\* summarization failure and asks whether to go on.
C8_Witness ==
    /\ pc = "chart"
    /\ load_error # "none"
    /\ ~remote[1].ok
    /\ outcome.kind = "return"

\* Every character of s is white space.
IsBlank(s) == \A i \in 1..Len(s) : SubSeq(s, i, i) \in {" ", "\n", "\t"}

\* C9: an empty or white-space input is not processed.  In the
\* command-line loop nothing is called for it, the message asking for text
\* is shown and the loop is back at its prompt; in the web script a press of
\* Analyze with an empty article text, also one emptied after a failed URL
\* extraction, calls nothing and shows the input-required message.
C9_EmptyInputNotProcessed ==
    /\ (InMain /\ raw_input # None /\ IsBlank(raw_input[1])) =>
          /\ pc = "prompt"
          /\ calls = << >>
          /\ verification_result = None
          /\ outcome = NoOutcome
          /\ summary = None
          /\ display = << "Please enter some text!" >>
    /\ (InApp /\ raw_input # None /\ analyze_btn /\ IsBlank(text)) =>
          /\ pc = "app_page"
          /\ calls = << >>
          /\ outcome = NoOutcome
          /\ summary = None
          /\ display[Len(display)] = "Input Required"

\* Analyze was pressed on a URL whose extraction failed.
C9_Witness ==
    /\ InApp
    /\ analyze_btn
    /\ raw_input = Some("https://example.com/article")
    /\ text = ""
    /\ display = << "Unable to extract content", "Input Required" >>
    /\ calls = << >>

\* C10: a failed remote call does not leave the handler as an exception.
\* verify_news then returns is_true = "ERROR", an empty analysis and the
\* error string, and returns error = None when the call succeeded;
\* summarize_news returns "Error generating summary: " and the error.
C10_RemoteFailureInline ==
    /\ LastCalled("verify_news") =>
          /\ pc # "crashed"
          /\ verification_result # None
          /\ IF remote[1].ok
             THEN verification_result[1].error = None
             ELSE verification_result[1] =
                      [is_true |-> "ERROR", analysis |-> "",
                       error |-> Some(remote[1].error)]
    /\ LastCalled("summarize_news") =>
          /\ pc \notin {"crashed", "app_crashed"}
          /\ summary # None
          /\ ~remote[1].ok =>
                summary[1] = "Error generating summary: " \o remote[1].error

\* verify_news met a quota error.
C10_Witness ==
    /\ LastCalled("verify_news")
    /\ verification_result # None
    /\ verification_result[1].is_true = "ERROR"
    /\ verification_result[1].error = Some("429 quota exceeded")

(***************************************************************************)
(* Properties of a detector over a sequence of calls.                      *)
(***************************************************************************)
\* The fields detect_bias reads.
ReadFields == << model_loaded, num_labels, id2label, left_keywords,
                 right_keywords, neutral_keywords >>

\* C11: once the detector is constructed no step changes model_loaded,
\* num_labels, id2label or the three keyword lists, a detect_bias call
\* included, whether or not its inference raised.  So the record a call
\* returns is the one its text and its inference give on those fields, and a
\* detector whose model loaded enters the model path in every call, also in
\* the calls that follow one whose inference raised.
C11_CallsLeaveDetectorUnchanged ==
    /\ [][pc # "new" => UNCHANGED ReadFields]_vars
    /\ [](pc = "returned" =>
            /\ outcome = detect_bias(text, inference)
            /\ load_error = "none" =>
                  /\ model_loaded
                  /\ inference.stage # "none"
                  /\ (inference.stage = "ok" /\ num_labels \in {2, 3}) =>
                        outcome.value.method = ModelMethod)

\* A call whose inference succeeded returned a model record after an
\* earlier call of the same detector had its inference raise.
C11_Witness ==
    /\ pc = "returned"
    /\ prediction_error_printed
    /\ inference.stage = "ok"
    /\ outcome.kind = "return"
    /\ outcome.value.method = ModelMethod

(***************************************************************************)
(* Properties of one iteration of the command-line loop.                   *)
(***************************************************************************)
\* The loop is in, or has just ended, an iteration on an input that is
\* neither empty nor a quit word.
InIteration == InMain /\ raw_input # None /\ text # ""

\* verify_news returned a record that carries an error string.
VerifyReturnedError ==
    verification_result # None /\ verification_result[1].error # None

IsPrefix(s, t) == Len(s) <= Len(t) /\ s = SubSeq(t, 1, Len(s))

\* C12: in an iteration on an input that is neither empty nor a quit word
\* the calls are verify_news, detect_bias, summarize_news in that order,
\* each at most once; detect_bias and summarize_news are called only when
\* verify_news returned no error, and when it returned one the iteration
\* has no bias result and the loop is back at its prompt.
C12_VerifyErrorEndsIteration ==
    InIteration =>
        /\ IsPrefix(calls, << "verify_news", "detect_bias", "summarize_news" >>)
        /\ (Called("detect_bias") \/ Called("summarize_news")) =>
               ~VerifyReturnedError
        /\ VerifyReturnedError =>
               /\ pc = "prompt"
               /\ calls = << "verify_news" >>
               /\ outcome = NoOutcome
               /\ summary = None

(***************************************************************************)
(* Properties of the records detect_bias returns.                          *)
(***************************************************************************)
\* The number of terms of a lexicon that occur in the lowercased t.
HitCount(lexicon, t) ==
    LET text_lower == Lower(t)
    IN  Cardinality({kw \in Terms(lexicon) : In(kw, text_lower)})

\* field, in hundredths, is 100 * count / total rounded to 2 decimals: it
\* is within half a hundredth of the quotient.
IsRoundedShare(field, count, total) ==
    /\ 2 * (field * total - 10000 * count) <= total
    /\ 2 * (10000 * count - field * total) <= total

\* C13: a loaded model whose label count is neither 2 nor 3 contributes
\* nothing to the result: whatever the inference did, the record is the
\* keyword record of the text, each percentage of a non-zero total being its
\* lexicon's count over the total times 100 rounded to 2 decimals, and the
\* method is the keyword method.
C13_UndefinedMappingUsesKeywords ==
    (pc = "returned" /\ model_loaded /\ num_labels \notin {2, 3}) =>
        LET l == HitCount(LeftKeywords, text)
            r == HitCount(RightKeywords, text)
            n == HitCount(NeutralKeywords, text)
            total == l + r + n
        IN  /\ outcome.kind = "return"
            /\ outcome.value.method = KeywordMethod
            /\ outcome = detect_with_keywords(text)
            /\ total > 0 =>
                  /\ IsRoundedShare(outcome.value.left, l, total)
                  /\ IsRoundedShare(outcome.value.right, r, total)
                  /\ IsRoundedShare(outcome.value.neutral, n, total)

\* A model of 4 labels whose inference succeeded, on a text with keyword
\* hits in two lexicons.
C13_Witness ==
    /\ pc = "returned"
    /\ model_loaded
    /\ num_labels = 4
    /\ inference.stage = "ok"
    /\ outcome.kind = "return"
    /\ outcome.value.method = KeywordMethod
    /\ outcome.counts = << 2, 0, 1 >>
    /\ outcome.value.left = 6667
    /\ outcome.value.neutral = 3333

\* The four cases of the keyword label for percentages L, R and N, forty
\* being 40 in their unit.
LabelCases(label, L, R, N, forty) ==
    /\ label = "Left-Leaning" <=> (L > forty /\ L >= R /\ L >= N)
    /\ label = "Right-Leaning" <=> (R > forty /\ R >= L /\ R >= N /\ L < R)
    /\ label = "Neutral/Balanced" <=> (N > forty /\ N > L /\ N > R)
    /\ label = "Mixed/Unclear" <=> (L <= forty /\ R <= forty /\ N <= forty)

\* C14: on the keyword path with a non-zero total the label is decided by
\* the three percentages alone, the exact ones and the returned ones alike:
\* Left-Leaning when left is above 40 and a maximum, Right-Leaning when
\* right is above 40, a maximum and above left, Neutral/Balanced when
\* neutral is above 40 and above both, Mixed/Unclear when none is above 40.
\* Equal left and right counts above 40% are Left-Leaning.
C14_KeywordLabelCases ==
    (KeywordPathRan /\ outcome.counts # << 0, 0, 0 >>) =>
        LET l == outcome.counts[1]
            r == outcome.counts[2]
            n == outcome.counts[3]
            rec == outcome.value
        IN  /\ LabelCases(rec.overall_bias, 100 * l, 100 * r, 100 * n,
                          40 * (l + r + n))
            /\ LabelCases(rec.overall_bias, rec.left, rec.right, rec.neutral,
                          4000)
            /\ (l = r /\ 100 * l > 40 * (l + r + n)) =>
                   rec.overall_bias = "Left-Leaning"

\* One left term and one right term, 50% each, labelled Left-Leaning.
C14_Witness ==
    /\ KeywordPathRan
    /\ outcome.counts = << 1, 1, 0 >>
    /\ outcome.value.left = 5000
    /\ outcome.value.right = 5000
    /\ outcome.value.overall_bias = "Left-Leaning"

\* C15: a loaded model of 2 labels whose inference succeeded gives left = 0,
\* neutral = 100 times the probability of class 0 and right = 100 times the
\* probability of class 1, each rounded to 2 decimals, whatever the label
\* names and the keywords of the text, which are not counted; the label is
\* never Left-Leaning, Slightly Left-Leaning or Mixed/Unclear.
C15_BinaryModelMapping ==
    (pc = "returned" /\ model_loaded /\ num_labels = 2
         /\ inference.stage = "ok") =>
        /\ outcome.kind = "return"
        /\ outcome.counts = << >>
        /\ outcome.value.method = ModelMethod
        /\ outcome.value.left = 0
        /\ IsRoundedShare(outcome.value.neutral, inference.probs[1],
                          inference.den)
        /\ IsRoundedShare(outcome.value.right, inference.probs[2],
                          inference.den)
        /\ outcome.value.overall_bias \notin
               {"Left-Leaning", "Slightly Left-Leaning", "Mixed/Unclear"}

\* A model whose two labels are named left and right, on a text with left
\* terms only, with class 0 at 55%.
C15_Witness ==
    /\ pc = "returned"
    /\ model_loaded
    /\ id2label = << "left", "right" >>
    /\ text = "Liberalism and UNION "
    /\ inference.stage = "ok"
    /\ 20 * inference.probs[1] = 11 * inference.den
    /\ outcome.kind = "return"
    /\ outcome.value.left = 0
    /\ outcome.value.neutral = 5500
    /\ outcome.value.right = 4500
    /\ outcome.value.overall_bias = "Neutral/Balanced"

\* C16: every record detect_bias returns, from the model, from the keyword
\* counts or for no keyword at all, has the six fields left, right, neutral,
\* overall_bias, method and confidence and no other, its method is one of
\* the two method names, and its confidence is the largest of its left,
\* neutral and right.
C16_ConfidenceIsLargestField ==
    pc = "returned" =>
        /\ outcome.kind = "return"
        /\ DOMAIN outcome.value =
               {"left", "right", "neutral", "overall_bias", "method",
                "confidence"}
        /\ outcome.value.method \in {ModelMethod, KeywordMethod}
        /\ outcome.value.confidence \in
               {outcome.value.left, outcome.value.neutral, outcome.value.right}
        /\ outcome.value.confidence >= outcome.value.left
        /\ outcome.value.confidence >= outcome.value.neutral
        /\ outcome.value.confidence >= outcome.value.right

\* A record from a model of 3 labels whose largest field is right.
C16_Witness ==
    /\ pc = "returned"
    /\ num_labels = 3
    /\ outcome.kind = "return"
    /\ outcome.value.method = ModelMethod
    /\ outcome.value.right > outcome.value.left
    /\ outcome.value.left > outcome.value.neutral
    /\ outcome.value.neutral > 0
    /\ outcome.value.confidence = outcome.value.right

=============================================================================
